---- MODULE Spec2Model ----
(***************************************************************************)
(* Model of the card generator library src/src/lib/cardGenerator.js.       *)
(*                                                                         *)
(* A JavaScript string is a sequence of one-character strings.  A number   *)
(* is an integer; NaN is the integer NaN below, and every comparison the   *)
(* code makes with a possibly-NaN operand goes through Lt/Le/Ge, which are *)
(* false on NaN as in JavaScript.                                          *)
(*                                                                         *)
(* Math.random() is a tape: the k-th call of a run returns the fraction    *)
(* RandAt(seed, k) / RandRes.  The seed is chosen in the initial state.    *)
(***************************************************************************)
EXTENDS Integers, Sequences, FiniteSets, TLC

VARIABLES
    pc,       \* "call" before the function under way has run, "done" once it has returned
    arg,      \* the argument of the function under way
    ret,      \* its return value, NoValue until it has returned
    now,      \* the clock read by new Date(): [year, month]
    seed,     \* the random tape
    drawn,    \* how many times Math.random() has been called
    count,    \* generateMultipleCards: the count parameter
    i,        \* generateMultipleCards: the loop index
    cards,    \* generateMultipleCards: the cards array
    calls,    \* history: the outcome of each call of generateCreditCard made by the loop
    errors,   \* the console.error log: the "card i + 1" of each caught failure
    binPattern,      \* page.jsx: the useState values of CreditCardGenerator
    cardCount,
    generatedCards,
    isGenerating,
    patternError

uiVars == <<binPattern, cardCount, generatedCards, isGenerating, patternError>>

vars == <<pc, arg, ret, now, seed, drawn, count, i, cards, calls, errors, uiVars>>

NoValue == <<"no value">>

-----------------------------------------------------------------------------
(* Characters and JavaScript string primitives                              *)

DigitChars == <<"0", "1", "2", "3", "4", "5", "6", "7", "8", "9">>

Digit == {DigitChars[k] : k \in 1..10}

DigitValOf == [c \in Digit |-> CHOOSE v \in 0..9 : DigitChars[v + 1] = c]

DigitVal(c) == DigitValOf[c]

DigitChar(v) == DigitChars[v + 1]

IsDigits(s) == \A k \in 1..Len(s) : s[k] \in Digit

NaN == -1

isNaN(n) == n = NaN

Lt(a, b) == ~isNaN(a) /\ ~isNaN(b) /\ a < b

Le(a, b) == ~isNaN(a) /\ ~isNaN(b) /\ a <= b

Ge(a, b) == ~isNaN(a) /\ ~isNaN(b) /\ a >= b

Gt(a, b) == ~isNaN(a) /\ ~isNaN(b) /\ a > b

NaNString == <<"N", "a", "N">>

Min(a, b) == IF a < b THEN a ELSE b

Max(a, b) == IF a > b THEN a ELSE b

\* s.substring(a, b) for 0 <= a <= b
substring(s, a, b) == SubSeq(s, Min(a, Len(s)) + 1, Min(b, Len(s)))

\* s.slice(-n)
sliceLast(s, n) == SubSeq(s, Max(Len(s) - n, 0) + 1, Len(s))

Repeat(c, n) == [k \in 1..n |-> c]

padEnd(s, n, c) == IF Len(s) >= n THEN s ELSE s \o Repeat(c, n - Len(s))

padStart(s, n, c) == IF Len(s) >= n THEN s ELSE Repeat(c, n - Len(s)) \o s

startsWith(s, p) == Len(s) >= Len(p) /\ SubSeq(s, 1, Len(p)) = p

\* The length of the longest prefix of s made of digits
RECURSIVE DigitPrefixLen(_)
DigitPrefixLen(s) ==
    IF s = <<>> \/ s[1] \notin Digit THEN 0 ELSE 1 + DigitPrefixLen(Tail(s))

RECURSIVE DigitsValue(_)
DigitsValue(s) ==
    IF s = <<>> THEN 0 ELSE 10 * DigitsValue(SubSeq(s, 1, Len(s) - 1)) + DigitVal(s[Len(s)])

\* parseInt(s) of a string without sign or leading whitespace: the value of its
\* leading digits, NaN when it has none
parseInt(s) ==
    LET n == DigitPrefixLen(s)
    IN  IF n = 0 THEN NaN ELSE DigitsValue(SubSeq(s, 1, n))

\* n.toString() of a number
RECURSIVE NatToString(_)
NatToString(n) ==
    IF n < 10 THEN <<DigitChar(n)>> ELSE NatToString(n \div 10) \o <<DigitChar(n % 10)>>

toString(n) == IF isNaN(n) THEN NaNString ELSE NatToString(n)

-----------------------------------------------------------------------------
(* Math.random                                                              *)

RandRes == 60

\* The tape starts at 3 * x, for x up to MaxStart
MaxStart == 19

\* How far the tape moves between two calls: a digit drawn is the digit drawn
\* before it plus 0, 1, ... 9
Steps == {0, 6, 12, 18, 24, 30, 36, 42, 48, 54}

Seeds == [a : {3 * x : x \in 0..MaxStart}, b : Steps]

RandAt(sd, k) == (sd.a + sd.b * k) % RandRes

\* Math.floor(Math.random() * n), for the k-th call of Math.random
randomInt(sd, k, n) == (RandAt(sd, k) * n) \div RandRes

-----------------------------------------------------------------------------
(* luhnCheck and generateValidCardNumber                                    *)

\* cardNumber.replace(/\D/g, "")
stripNonDigits(s) == SelectSeq(s, LAMBDA c : c \in Digit)

\* Lines 7-19: the loop of luhnCheck, from index k (1-based) down to 1
RECURSIVE luhnCheckLoop(_, _, _, _)
luhnCheckLoop(digits, k, sum, isEven) ==
    IF k < 1 THEN sum
    ELSE LET digit == DigitVal(digits[k])
             doubled == IF isEven THEN 2 * digit ELSE digit
             reduced == IF isEven /\ doubled > 9 THEN doubled - 9 ELSE doubled
         IN  luhnCheckLoop(digits, k - 1, sum + reduced, ~isEven)

luhnCheckMutParity(cardNumber) ==
    LET digits == stripNonDigits(cardNumber)
    IN  luhnCheckLoop(digits, Len(digits), 0, TRUE) % 10 = 0

luhnCheck(cardNumber) ==
    LET digits == stripNonDigits(cardNumber)
    IN  luhnCheckLoop(digits, Len(digits), 0, FALSE) % 10 = 0

\* Lines 33-45: the loop of generateValidCardNumber
RECURSIVE checkDigitLoop(_, _, _, _)
checkDigitLoop(cardNumber, k, sum, isEven) ==
    IF k < 1 THEN sum
    ELSE LET digit == DigitVal(cardNumber[k])
             doubled == IF isEven THEN 2 * digit ELSE digit
             reduced == IF isEven /\ doubled > 9 THEN doubled - 9 ELSE doubled
         IN  checkDigitLoop(cardNumber, k - 1, sum + reduced, ~isEven)

\* The loop without "if (digit > 9) digit -= 9"
RECURSIVE checkDigitLoopNoReduce(_, _, _, _)
checkDigitLoopNoReduce(cardNumber, k, sum, isEven) ==
    IF k < 1 THEN sum
    ELSE LET digit == DigitVal(cardNumber[k])
             doubled == IF isEven THEN 2 * digit ELSE digit
         IN  checkDigitLoopNoReduce(cardNumber, k - 1, sum + doubled, ~isEven)

\* isEven starts false
generateValidCardNumberMutParity(baseNumber) ==
    LET cardNumber == substring(padEnd(baseNumber, 15, "0"), 0, 15)
    IN  IF ~IsDigits(cardNumber) THEN cardNumber \o NaNString
        ELSE LET sum == checkDigitLoop(cardNumber, Len(cardNumber), 0, FALSE)
             IN  cardNumber \o <<DigitChar((10 - (sum % 10)) % 10)>>

\* a doubled digit above 9 is not reduced by 9
generateValidCardNumberMutNoReduce(baseNumber) ==
    LET cardNumber == substring(padEnd(baseNumber, 15, "0"), 0, 15)
    IN  IF ~IsDigits(cardNumber) THEN cardNumber \o NaNString
        ELSE LET sum == checkDigitLoopNoReduce(cardNumber, Len(cardNumber), 0, TRUE)
             IN  cardNumber \o <<DigitChar((10 - (sum % 10)) % 10)>>

\* parseInt of a character that is no digit is NaN, and so are the sum and the
\* check digit
generateValidCardNumber(baseNumber) ==
    LET cardNumber == substring(padEnd(baseNumber, 15, "0"), 0, 15)
    IN  IF ~IsDigits(cardNumber) THEN cardNumber \o NaNString
        ELSE LET sum == checkDigitLoop(cardNumber, Len(cardNumber), 0, TRUE)
             IN  cardNumber \o <<DigitChar((10 - (sum % 10)) % 10)>>

-----------------------------------------------------------------------------
(* detectCardType                                                           *)

\* Array.prototype.includes on a list of strings
includes(list, s) == \E k \in 1..Len(list) : list[k] = s

\* The literals of the source, as strings
Str2(a, b) == <<a, b>>

Str4(a, b, c, d) == <<a, b, c, d>>

detectCardTypeMutOrder(cardNumber) ==
    LET firstDigit == substring(cardNumber, 0, 1)
        firstTwoDigits == substring(cardNumber, 0, 2)
        firstFourDigits == substring(cardNumber, 0, 4)
        firstSixDigits == substring(cardNumber, 0, 6)
    IN  IF firstFourDigits \in {Str4("4", "0", "2", "6"), Str4("4", "1", "7", "5"),
                                Str4("4", "4", "0", "5"), Str4("4", "5", "0", "8"),
                                Str4("4", "8", "4", "4"), Str4("4", "9", "1", "3"),
                                Str4("4", "9", "1", "7")}
        THEN "Visa Electron"
        ELSE IF firstDigit = <<"4">> THEN "Visa"
        ELSE IF \/ includes(<<Str2("5", "1"), Str2("5", "2"), Str2("5", "3"),
                              Str2("5", "4"), Str2("5", "5")>>, firstTwoDigits)
                \/ (Ge(parseInt(firstFourDigits), 2221) /\ Le(parseInt(firstFourDigits), 2720))
        THEN "Mastercard"
        ELSE IF includes(<<Str2("3", "4"), Str2("3", "7")>>, firstTwoDigits)
        THEN "American Express"
        ELSE IF \/ firstFourDigits = Str4("6", "0", "1", "1")
                \/ firstTwoDigits = Str2("6", "5")
                \/ (Ge(parseInt(firstSixDigits), 644000) /\ Le(parseInt(firstSixDigits), 649999))
        THEN "Discover"
        ELSE IF includes(<<Str2("3", "0"), Str2("3", "6"), Str2("3", "8")>>, firstTwoDigits)
        THEN "Diners Club"
        ELSE IF firstTwoDigits = Str2("3", "5") THEN "JCB"
        ELSE IF firstFourDigits = Str4("5", "0", "1", "9") THEN "Dankort"
        ELSE "Unknown"

detectCardType(cardNumber) ==
    LET firstDigit == substring(cardNumber, 0, 1)    \* cardNumber[0]; undefined as ""
        firstTwoDigits == substring(cardNumber, 0, 2)
        firstFourDigits == substring(cardNumber, 0, 4)
        firstSixDigits == substring(cardNumber, 0, 6)
    IN  IF firstDigit = <<"4">> THEN "Visa"
        ELSE IF \/ includes(<<Str2("5", "1"), Str2("5", "2"), Str2("5", "3"),
                              Str2("5", "4"), Str2("5", "5")>>, firstTwoDigits)
                \/ (Ge(parseInt(firstFourDigits), 2221) /\ Le(parseInt(firstFourDigits), 2720))
        THEN "Mastercard"
        ELSE IF includes(<<Str2("3", "4"), Str2("3", "7")>>, firstTwoDigits)
        THEN "American Express"
        ELSE IF \/ firstFourDigits = Str4("6", "0", "1", "1")
                \/ firstTwoDigits = Str2("6", "5")
                \/ (Ge(parseInt(firstSixDigits), 644000) /\ Le(parseInt(firstSixDigits), 649999))
        THEN "Discover"
        ELSE IF includes(<<Str2("3", "0"), Str2("3", "6"), Str2("3", "8")>>, firstTwoDigits)
        THEN "Diners Club"
        ELSE IF firstTwoDigits = Str2("3", "5") THEN "JCB"
        ELSE IF firstFourDigits = Str4("5", "0", "1", "9") THEN "Dankort"
        ELSE IF firstFourDigits \in {Str4("4", "0", "2", "6"), Str4("4", "1", "7", "5"),
                                     Str4("4", "4", "0", "5"), Str4("4", "5", "0", "8"),
                                     Str4("4", "8", "4", "4"), Str4("4", "9", "1", "3"),
                                     Str4("4", "9", "1", "7")}
        THEN "Visa Electron"
        ELSE "Unknown"

-----------------------------------------------------------------------------
(* generateRandomExpiry and generateCVV                                     *)

\* Returns the expiry and the number of Math.random() calls made
\* futureYear without the + 1: the current year can be drawn
generateRandomExpiryMutThisYear(clock, sd, k) ==
    LET currentYear == clock.year
        currentMonth == clock.month
        futureYear == currentYear + randomInt(sd, k, 10)
        month == randomInt(sd, k + 1, 12) + 1
        redraw == futureYear = currentYear /\ month <= currentMonth
        finalMonth == IF redraw
                      THEN currentMonth + randomInt(sd, k + 2, 12 - currentMonth) + 1
                      ELSE month
        finalYear == IF finalMonth > 12 THEN futureYear + 1 ELSE futureYear
        adjustedMonth == IF finalMonth > 12 THEN finalMonth - 12 ELSE finalMonth
    IN  [month |-> padStart(toString(adjustedMonth), 2, "0"),
         year |-> sliceLast(toString(finalYear), 2),
         used |-> IF redraw THEN 3 ELSE 2]

generateRandomExpiry(clock, sd, k) ==
    LET currentYear == clock.year
        currentMonth == clock.month
        futureYear == currentYear + randomInt(sd, k, 10) + 1
        month == randomInt(sd, k + 1, 12) + 1
        redraw == futureYear = currentYear /\ month <= currentMonth
        finalMonth == IF redraw
                      THEN currentMonth + randomInt(sd, k + 2, 12 - currentMonth) + 1
                      ELSE month
        finalYear == IF finalMonth > 12 THEN futureYear + 1 ELSE futureYear
        adjustedMonth == IF finalMonth > 12 THEN finalMonth - 12 ELSE finalMonth
    IN  [month |-> padStart(toString(adjustedMonth), 2, "0"),
         year |-> sliceLast(toString(finalYear), 2),
         used |-> IF redraw THEN 3 ELSE 2]

generateCVV(cardType, sd, k) ==
    LET isAmex == cardType = "American Express"
        length == IF isAmex THEN 4 ELSE 3
    IN  [j \in 1..length |-> DigitChar(randomInt(sd, k + j - 1, 10))]

-----------------------------------------------------------------------------
(* fillWildcards, cleanInput, parseInputPattern                             *)

\* The character class of the regular expression /[\*XxQ#_?]/
WildcardChars == {"*", "X", "x", "Q", "#", "_", "?"}

hasWildcard(s) == \E k \in 1..Len(s) : s[k] \in WildcardChars

WildcardCount(s) == Len(SelectSeq(s, LAMBDA c : c \in WildcardChars))

\* pattern.replace(re, fn): each match, left to right, is replaced by the
\* string of the number fn returns, Math.floor(Math.random() * n); the other
\* characters are copied
RECURSIVE replaceLoop(_, _, _, _)
replaceLoop(pattern, sd, k, n) ==
    IF pattern = <<>> THEN <<>>
    ELSE IF pattern[1] \in WildcardChars
    THEN toString(randomInt(sd, k, n)) \o replaceLoop(Tail(pattern), sd, k + 1, n)
    ELSE <<pattern[1]>> \o replaceLoop(Tail(pattern), sd, k, n)

\* Math.random() * 100: a replacement of one or two digits
fillWildcardsMutWide(pattern, sd, k) == replaceLoop(pattern, sd, k, 100)

fillWildcards(pattern, sd, k) == replaceLoop(pattern, sd, k, 10)

\* The characters \s matches, among those the model uses
WhitespaceChars == {" ", "\t"}

cleanInput(input) == SelectSeq(input, LAMBDA c : c \notin WhitespaceChars)

\* The character class of the regular expression /[\|\/:\-]/
SeparatorChars == {"|", "/", ":", "-"}

\* input.split(/[\|\/:\-]/): parts is the list so far, cur the part being read
RECURSIVE splitLoop(_, _, _)
splitLoop(s, parts, cur) ==
    IF s = <<>> THEN Append(parts, cur)
    ELSE IF s[1] \in SeparatorChars THEN splitLoop(Tail(s), Append(parts, cur), <<>>)
    ELSE splitLoop(Tail(s), parts, Append(cur, s[1]))

split(s) == splitLoop(s, <<>>, <<>>)

Null == <<"null">>

\* The input is split as it is, whitespace included
parseInputPatternMutUncleaned(input) ==
    LET parts == SelectSeq(split(input), LAMBDA part : Len(part) > 0)
    IN  [bin |-> IF Len(parts) >= 1 THEN parts[1] ELSE <<>>,
         month |-> IF Len(parts) >= 2 THEN parts[2] ELSE Null,
         year |-> IF Len(parts) >= 3 THEN parts[3] ELSE Null,
         cvv |-> IF Len(parts) >= 4 THEN parts[4] ELSE Null]

parseInputPattern(input) ==
    LET cleanedInput == cleanInput(input)
        parts == SelectSeq(split(cleanedInput), LAMBDA part : Len(part) > 0)
    IN  [bin |-> IF Len(parts) >= 1 THEN parts[1] ELSE <<>>,
         month |-> IF Len(parts) >= 2 THEN parts[2] ELSE Null,
         year |-> IF Len(parts) >= 3 THEN parts[3] ELSE Null,
         cvv |-> IF Len(parts) >= 4 THEN parts[4] ELSE Null]

-----------------------------------------------------------------------------
(* generateCreditCard                                                       *)

\* Lines 178-188: the length the card number is meant to have
targetLengthOf(cardNumber) ==
    IF startsWith(cardNumber, Str2("3", "4")) \/ startsWith(cardNumber, Str2("3", "7"))
    THEN 15
    ELSE IF \/ startsWith(cardNumber, Str2("3", "0"))
            \/ startsWith(cardNumber, Str2("3", "6"))
            \/ startsWith(cardNumber, Str2("3", "8"))
    THEN 14
    ELSE 16

\* cardNumber = digit + cardNumber: the missing digits are put in front
resolveCardNumberMutPrepend(bin, sd, k) ==
    LET filled == fillWildcards(bin, sd, k)
        k1 == k + WildcardCount(bin)
        targetLength == targetLengthOf(filled)
        missingDigits == IF Len(filled) < targetLength THEN targetLength - Len(filled) ELSE 0
        padded == [j \in 1..missingDigits |->
                        DigitChar(randomInt(sd, k1 + missingDigits - j, 10))] \o filled
        cardNumber == substring(padded, 0, targetLength)
    IN  [value |-> generateValidCardNumber(substring(cardNumber, 0, targetLength - 1)),
         used |-> WildcardCount(bin) + missingDigits]

\* Lines 176-202: the wildcards filled, the missing digits appended, the cut to
\* targetLength and the check digit
resolveCardNumber(bin, sd, k) ==
    LET filled == fillWildcards(bin, sd, k)
        k1 == k + WildcardCount(bin)
        targetLength == targetLengthOf(filled)
        missingDigits == IF Len(filled) < targetLength THEN targetLength - Len(filled) ELSE 0
        padded == filled \o [j \in 1..missingDigits |-> DigitChar(randomInt(sd, k1 + j - 1, 10))]
        cardNumber == substring(padded, 0, targetLength)
    IN  [value |-> generateValidCardNumber(substring(cardNumber, 0, targetLength - 1)),
         used |-> WildcardCount(bin) + missingDigits]

\* Lines 211-219 and 254
resolveMonth(parsedMonth, sd, k) ==
    IF hasWildcard(parsedMonth)
    THEN LET filled == fillWildcards(parsedMonth, sd, k)
             k1 == k + WildcardCount(parsedMonth)
             parsedNum == parseInt(filled)
             redraw == isNaN(parsedNum) \/ parsedNum < 1 \/ parsedNum > 12
             monthNum == IF redraw THEN randomInt(sd, k1, 12) + 1 ELSE parsedNum
             processedMonth == padStart(toString(monthNum), 2, "0")
         IN  [value |-> padStart(processedMonth, 2, "0"),
              used |-> WildcardCount(parsedMonth) + (IF redraw THEN 1 ELSE 0)]
    ELSE [value |-> padStart(parsedMonth, 2, "0"), used |-> 0]

\* A two-digit year of the past is kept
processYearMutKeepPast(parsedYear, clock, sd, k) ==
    IF hasWildcard(parsedYear)
    THEN LET filled == fillWildcards(parsedYear, sd, k)
             k1 == k + WildcardCount(parsedYear)
             currentYear == clock.year
             fresh == toString(currentYear + randomInt(sd, k1, 10))
         IN  IF Len(filled) = 2
             THEN LET currentCentury == (currentYear \div 100) * 100
                      yearNum == parseInt(filled)
                      pivoted == IF Ge(yearNum, 0) /\ Le(yearNum, 49)
                                 THEN toString(currentCentury + yearNum)
                                 ELSE IF isNaN(yearNum) THEN NaNString
                                 ELSE toString(currentCentury - 100 + yearNum)
                  IN  [value |-> pivoted, used |-> WildcardCount(parsedYear)]
             ELSE IF Len(filled) = 4
             THEN LET yearNum == parseInt(filled)
                      redraw == \/ isNaN(yearNum)
                                \/ yearNum < currentYear
                                \/ yearNum > currentYear + 20
                  IN  [value |-> IF redraw THEN fresh ELSE filled,
                       used |-> WildcardCount(parsedYear) + (IF redraw THEN 1 ELSE 0)]
             ELSE [value |-> fresh, used |-> WildcardCount(parsedYear) + 1]
    ELSE [value |-> parsedYear, used |-> 0]

\* Lines 222-252: the year as a string, before it is cut to two characters
processYear(parsedYear, clock, sd, k) ==
    IF hasWildcard(parsedYear)
    THEN LET filled == fillWildcards(parsedYear, sd, k)
             k1 == k + WildcardCount(parsedYear)
             currentYear == clock.year
             fresh == toString(currentYear + randomInt(sd, k1, 10))
         IN  IF Len(filled) = 2
             THEN LET currentCentury == (currentYear \div 100) * 100
                      yearNum == parseInt(filled)
                      pivoted == IF Ge(yearNum, 0) /\ Le(yearNum, 49)
                                 THEN toString(currentCentury + yearNum)
                                 ELSE IF isNaN(yearNum) THEN NaNString
                                 ELSE toString(currentCentury - 100 + yearNum)
                      redraw == Lt(parseInt(pivoted), currentYear)
                  IN  [value |-> IF redraw THEN fresh ELSE pivoted,
                       used |-> WildcardCount(parsedYear) + (IF redraw THEN 1 ELSE 0)]
             ELSE IF Len(filled) = 4
             THEN LET yearNum == parseInt(filled)
                      redraw == \/ isNaN(yearNum)
                                \/ yearNum < currentYear
                                \/ yearNum > currentYear + 20
                  IN  [value |-> IF redraw THEN fresh ELSE filled,
                       used |-> WildcardCount(parsedYear) + (IF redraw THEN 1 ELSE 0)]
             ELSE [value |-> fresh, used |-> WildcardCount(parsedYear) + 1]
    ELSE [value |-> parsedYear, used |-> 0]

\* Line 255
cutYear(processedYear) ==
    IF Len(processedYear) = 4 THEN sliceLast(processedYear, 2)
    ELSE padStart(processedYear, 2, "0")

\* The expanded cvv is kept whatever its length
resolveCvvMutKeepFilled(parsedCvv, cardType, sd, k) ==
    IF parsedCvv # Null
    THEN IF hasWildcard(parsedCvv)
         THEN [value |-> fillWildcards(parsedCvv, sd, k), used |-> WildcardCount(parsedCvv)]
         ELSE [value |-> parsedCvv, used |-> 0]
    ELSE [value |-> generateCVV(cardType, sd, k),
          used |-> IF cardType = "American Express" THEN 4 ELSE 3]

\* Lines 263-282
resolveCvv(parsedCvv, cardType, sd, k) ==
    IF parsedCvv # Null
    THEN IF hasWildcard(parsedCvv)
         THEN LET filled == fillWildcards(parsedCvv, sd, k)
                  k1 == k + WildcardCount(parsedCvv)
                  isAmex == cardType = "American Express"
                  expectedLength == IF isAmex THEN 4 ELSE 3
                  redraw == Len(filled) # expectedLength \/ isNaN(parseInt(filled))
              IN  [value |-> IF redraw THEN generateCVV(cardType, sd, k1) ELSE filled,
                   used |-> WildcardCount(parsedCvv) + (IF redraw THEN expectedLength ELSE 0)]
         ELSE [value |-> parsedCvv, used |-> 0]
    ELSE [value |-> generateCVV(cardType, sd, k),
          used |-> IF cardType = "American Express" THEN 4 ELSE 3]

\* if (parsed.month || parsed.year)
expiryGivenMutEither(parsed) == parsed.month # Null \/ parsed.year # Null

\* Line 209: null is falsy, and a segment is never the empty string
expiryGiven(parsed) == parsed.month # Null /\ parsed.year # Null

\* The record returned, the four-digit year it was cut from when the pattern
\* gave month and year (NoValue otherwise), and the Math.random() calls made
generateCreditCard(pattern, clock, sd, k) ==
    LET parsed == parseInputPattern(pattern)
        number == resolveCardNumber(parsed.bin, sd, k)
        validCardNumber == number.value
        k1 == k + number.used
        cardType == detectCardType(validCardNumber)
        given == expiryGiven(parsed)
        m == resolveMonth(parsed.month, sd, k1)
        y == processYear(parsed.year, clock, sd, k1 + m.used)
        expiry == generateRandomExpiry(clock, sd, k1)
        month == IF given THEN m.value ELSE expiry.month
        year == IF given THEN cutYear(y.value) ELSE expiry.year
        k2 == k1 + (IF given THEN m.used + y.used ELSE expiry.used)
        c == resolveCvv(parsed.cvv, cardType, sd, k2)
        cvv == c.value
    IN  [card |-> [cardNumber |-> validCardNumber,
                   month |-> month,
                   year |-> year,
                   cvv |-> cvv,
                   cardType |-> cardType,
                   formatted |-> validCardNumber \o <<"|">> \o month \o <<"|">> \o year
                                     \o <<"|">> \o cvv],
         processedYear |-> IF given THEN y.value ELSE NoValue,
         used |-> (k2 - k) + c.used]

-----------------------------------------------------------------------------
(* The patterns generateCreditCard is run on                                *)

\* Fifteen literal digits; each is completed by every sixteenth digit
LiteralBases ==
    {<<"4", "1", "1", "1", "1", "1", "1", "1", "1", "1", "1", "1", "1", "1", "1">>,
     <<"5", "5", "0", "0", "0", "0", "0", "0", "0", "0", "0", "0", "0", "0", "0">>,
     <<"6", "0", "1", "1", "0", "0", "0", "0", "0", "0", "0", "0", "0", "0", "0">>,
     <<"3", "5", "3", "0", "1", "1", "1", "3", "3", "3", "3", "0", "0", "0", "0">>,
     <<"2", "2", "2", "1", "0", "0", "0", "0", "0", "0", "0", "0", "0", "0", "0">>,
     <<"1", "2", "3", "4", "5", "6", "7", "8", "9", "0", "1", "2", "3", "4", "5">>,
     <<"3", "4", "0", "0", "0", "0", "0", "0", "0", "0", "0", "0", "0", "0", "0">>}

SixteenDigitBins == {b \o <<d>> : b \in LiteralBases, d \in Digit}

\* Patterns that give a bin only: empty, short, exact, long, with wildcards
BinPatterns ==
    {<<>>,
     <<"4">>,
     <<"3", "4">>,
     <<"3", "7">>,
     <<"3", "0">>,
     <<"3", "6">>,
     <<"3", "8">>,
     <<"3", "5">>,
     <<"3", "X">>,
     <<"X">>,
     <<"X", "X">>,
     <<"3", "?", "0", "0">>,
     <<"4", "5", "3", "2", "*", "*", "*", "*", "*", "*", "*", "*">>,
     <<"4", "3", "4", "7", "6", "9", "8", "0", "5", "9", "2", "6", "X", "X", "X", "X">>,
     <<"3", "4", "0", "0", "0", "0", "0", "0", "0", "0", "0", "0", "0", "0", "0">>,
     <<"3", "7", "8", "2", "8", "2", "2", "4", "6", "3", "1", "0", "0", "0", "5">>,
     <<"3", "0", "0", "0", "0", "0", "0", "0", "0", "0", "0", "0", "0", "0">>,
     <<"3", "6", "X", "X", "X", "X", "X", "X", "X", "X", "X", "X", "X", "X">>,
     <<"4", "1", "1", "1", "1", "1", "1", "1", "1", "1", "1", "1", "1", "1", "1", "1", "2", "2", "2", "2">>,
     <<"3", "4", "0", "0", "0", "0", "0", "0", "0", "0", "0", "0", "0", "0", "0", "0", "0", "0", "0">>,
     <<"6", "0", "1", "1">>,
     <<"6", "5">>,
     <<"6", "4", "4", "0", "0", "0">>,
     <<"6", "4", "9", "9", "9", "9">>,
     <<"5", "0", "1", "9">>,
     <<"4", "0", "2", "6">>,
     <<"2", "2", "2", "1">>,
     <<"2", "7", "2", "0">>,
     <<"5", "5">>,
     <<"5", "1", "#", "_">>,
     <<"*", "*", "*", "*", "*", "*", "*", "*", "*", "*", "*", "*", "*", "*", "*", "*">>,
     <<"x">>}

\* The month and year segments tried, and a lone month
ExpirySegments ==
    {<<"1", "2", "|", "2", "6">>,
     <<"X", "X", "|", "X", "X">>,
     <<"1", "X", "|", "2", "0", "X", "X">>,
     <<"1", "3", "|", "2", "0", "3", "0">>,
     <<"0", "0", "|", "9", "9">>,
     <<"1", "|", "5">>,
     <<"1", "2", "3", "|", "2", "0", "3">>,
     <<"X", "|", "X", "X", "X">>,
     <<"1", "2", "|", "2", "0", "3", "0", "1">>,
     <<"?", "#", "|", "2", "*">>,
     <<"X", "X", "X", "|", "2", "X", "X", "X">>,
     <<"1", "2">>,
     <<"X">>,
     <<"0", "X", "|", "X", "9">>,
     <<"1", "2", "|", "X", "X", "X", "X", "X">>}

\* The cvv segments tried
CvvSegments ==
    {<<"1", "2", "3">>,
     <<"1", "2", "3", "4">>,
     <<"1", "2">>,
     <<"X", "X", "X">>,
     <<"X", "X", "X", "X">>,
     <<"X">>,
     <<"1", "X", "3">>,
     <<"X", "X", "X", "X", "X">>,
     <<"1", "2", "3", "4", "5">>,
     <<"?", "#", "_", "*">>}

\* The bins the expiry and cvv segments are tried with
HostBins ==
    {<<"4", "1", "1", "1", "1", "1", "1", "1", "1", "1", "1", "1", "1", "1", "1", "1">>,
     <<"3", "7", "8", "2", "8", "2", "2", "4", "6", "3", "1", "0", "0", "0", "5">>}

\* Other separators, whitespace, empty segments, a fifth segment
FormatPatterns ==
    {<<"4", "1", "1", "1", " ", "1", "1", "1", "1", " ", "1", "1", "1", "1", " ", "1", "1", "1", "1", " ", "|", " ", "1", "2", " ", "|", " ", "2", "6", " ", "|", " ", "1", "2", "3">>,
     <<"4", "5", "3", "2", "*", "*", "*", "*", "*", "*", "*", "*", "/", "1", "2", "/", "2", "6", "/", "1", "2", "3">>,
     <<"4", "5", "3", "2", "*", "*", "*", "*", "*", "*", "*", "*", ":", "X", "X", ":", "X", "X", ":", "X", "X", "X">>,
     <<"4", "5", "3", "2", "*", "*", "*", "*", "*", "*", "*", "*", "-", "1", "2", "-", "2", "0", "2", "6", "-", "X", "X", "X">>,
     <<"3", "7", "X", "X", "|", "|", "1", "2", "/", "/", "2", "0", "3", "0", "|", "X", "X", "X", "X">>,
     <<"|", "4", "X", "|", "0", "1", "|", "3", "0", "|">>,
     <<"5", "5", "0", "0", "0", "0", "0", "0", "0", "0", "0", "0", "0", "0", "0", "4", "|", "1", "2", "|", "2", "0", "3", "0", "|", "1", "2", "3", "|", "9", "9", "9">>,
     <<"\t", "3", "X", "\t", "|", "\t", "X", "X", "\t">>,
     <<"3", "7", "4", "2", "4", "5", "#", "#", "#", "#", "#", "#", "/", "X", "X", "/", "X", "X", "/", "?", "?", "?", "?">>}

Bar == <<"|">>

Patterns ==
    SixteenDigitBins \cup BinPatterns \cup FormatPatterns
        \cup {b \o Bar \o e : b \in HostBins, e \in ExpirySegments}
        \cup {b \o Bar \o <<"1", "2">> \o Bar \o <<"3", "0">> \o Bar \o c :
                b \in HostBins, c \in CvvSegments}

\* The clock values tried: [year, month]
Clocks ==
    {[year |-> 2026, month |-> 11], [year |-> 2024, month |-> 12], [year |-> 2050, month |-> 1]}

-----------------------------------------------------------------------------
(* generateCreditCard(pattern): one call on one pattern                     *)

InitGen ==
    /\ pc = "call"
    /\ arg \in Patterns
    /\ now \in Clocks
    /\ seed \in Seeds
    /\ ret = NoValue
    /\ drawn = 0
    /\ count = 0
    /\ i = 0
    /\ cards = <<>>
    /\ calls = <<>>
    /\ errors = <<>>
    /\ binPattern = <<>>
    /\ cardCount = 1
    /\ generatedCards = <<>>
    /\ isGenerating = FALSE
    /\ patternError = ""

Generate ==
    /\ pc = "call"
    /\ LET r == generateCreditCard(arg, now, seed, drawn)
       IN  /\ ret' = r
           /\ drawn' = drawn + r.used
    /\ pc' = "done"
    /\ UNCHANGED <<arg, now, seed, count, i, cards, calls, errors, uiVars>>

NextGen == Generate

SpecGen == InitGen /\ [][NextGen]_vars

-----------------------------------------------------------------------------
(* generateValidCardNumber followed by luhnCheck, on digit sequences        *)

\* The longest digit sequence tried
MaxLen == 18

\* Every digit sequence of length 1 to 3, and the sequences of length up to
\* MaxLen whose k-th digit is a + b * k modulo 10
DigitSequences ==
    UNION {[1..n -> Digit] : n \in 1..3}
        \cup {[k \in 1..n |-> DigitChar((a + b * k) % 10)] : n \in 4..MaxLen, a \in 0..9, b \in 0..9}

InitIdle ==
    /\ pc = "call"
    /\ ret = NoValue
    /\ now = [year |-> 2026, month |-> 11]
    /\ drawn = 0
    /\ count = 0
    /\ i = 0
    /\ cards = <<>>
    /\ calls = <<>>
    /\ errors = <<>>
    /\ binPattern = <<>>
    /\ cardCount = 1
    /\ generatedCards = <<>>
    /\ isGenerating = FALSE
    /\ patternError = ""

InitLuhn ==
    /\ InitIdle
    /\ arg \in DigitSequences
    /\ seed = [a |-> 0, b |-> 0]

\* luhnCheck(generateValidCardNumber(d.substring(0, 15)))
RoundTrip ==
    /\ pc = "call"
    /\ LET number == generateValidCardNumber(substring(arg, 0, 15))
       IN  ret' = [number |-> number, valid |-> luhnCheck(number)]
    /\ pc' = "done"
    /\ UNCHANGED <<arg, now, seed, drawn, count, i, cards, calls, errors, uiVars>>

NextLuhn == RoundTrip

SpecLuhn == InitLuhn /\ [][NextLuhn]_vars

-----------------------------------------------------------------------------
(* detectCardType, on digit strings                                         *)

\* What follows the first four digits
Tails ==
    {<<>>, <<"0">>, <<"0", "0">>, <<"9", "9">>,
     <<"0", "0", "0", "0", "0", "0", "0", "0", "0", "0", "0", "0">>}

\* Every digit string of length 0 to 3, and every four digits followed by a tail
DigitStrings ==
    UNION {[1..n -> Digit] : n \in 0..3} \cup {p \o t : p \in [1..4 -> Digit], t \in Tails}

InitDetect ==
    /\ InitIdle
    /\ arg \in DigitStrings
    /\ seed = [a |-> 0, b |-> 0]

Detect ==
    /\ pc = "call"
    /\ ret' = detectCardType(arg)
    /\ pc' = "done"
    /\ UNCHANGED <<arg, now, seed, drawn, count, i, cards, calls, errors, uiVars>>

NextDetect == Detect

SpecDetect == InitDetect /\ [][NextDetect]_vars

-----------------------------------------------------------------------------
(* fillWildcards, on strings of any characters                              *)

\* The longest string tried
MaxFillLen == 3

\* Digits, the wildcards of the documentation, separators, whitespace, and
\* letters and symbols that the documentation does not name
FillAlphabet == {"4", "*", "X", "x", "?", "#", "_", "Q", "q", "A", "|", " "}

FillInputs == UNION {[1..n -> FillAlphabet] : n \in 0..MaxFillLen}

FillSeeds == {sd \in Seeds : sd.a % 12 = 9 /\ sd.b \in {0, 18}}

InitFill ==
    /\ InitIdle
    /\ arg \in FillInputs
    /\ seed \in FillSeeds

Fill ==
    /\ pc = "call"
    /\ ret' = fillWildcards(arg, seed, drawn)
    /\ drawn' = drawn + WildcardCount(arg)
    /\ pc' = "done"
    /\ UNCHANGED <<arg, now, seed, count, i, cards, calls, errors, uiVars>>

NextFill == Fill

SpecFill == InitFill /\ [][NextFill]_vars

-----------------------------------------------------------------------------
(* generateMultipleCards(pattern, count)                                    *)

\* The largest count tried
MaxCount == 3

\* A pattern argument that is no string: cleanInput throws on it
NotAString == <<"not a string">>

BatchPatterns ==
    {<<"4", "5", "3", "2", "*", "*", "*", "*", "*", "*", "*", "*">>,
     <<"3", "X", "|", "X", "X", "|", "X", "X", "|", "X", "X", "X">>,
     <<"4", "1", "1", "1", "1", "1", "1", "1", "1", "1", "1", "1", "1", "1", "1", "1", "|", "1", "2", "|", "2", "6", "|", "1", "2", "3">>,
     NotAString}

BatchSeeds == {sd \in Seeds : sd.a % 12 = 9 /\ sd.b \in {6, 18, 42}}

InitBatch ==
    /\ pc = "loop"
    /\ arg \in BatchPatterns
    /\ count \in 0..MaxCount
    /\ now = [year |-> 2026, month |-> 11]
    /\ seed \in BatchSeeds
    /\ ret = NoValue
    /\ drawn = 0
    /\ i = 0
    /\ cards = <<>>
    /\ calls = <<>>
    /\ errors = <<>>
    /\ binPattern = <<>>
    /\ cardCount = 1
    /\ generatedCards = <<>>
    /\ isGenerating = FALSE
    /\ patternError = ""

\* Lines 297-299: the call returns and its record is pushed
CallReturns ==
    /\ pc = "loop"
    /\ i < count
    /\ arg # NotAString
    /\ LET r == generateCreditCard(arg, now, seed, drawn)
       IN  /\ cards' = Append(cards, r.card)
           /\ calls' = Append(calls, [ok |-> TRUE, card |-> r.card])
           /\ drawn' = drawn + r.used
    /\ i' = i + 1
    /\ UNCHANGED <<pc, arg, ret, now, seed, count, errors, uiVars>>

\* No catch: the failure leaves the loop and the function
CallThrowsMutUncaught ==
    /\ pc = "loop"
    /\ i < count
    /\ pc' = "done"
    /\ ret' = <<>>
    /\ calls' = Append(calls, [ok |-> FALSE, card |-> NoValue])
    /\ UNCHANGED <<arg, now, seed, drawn, count, i, cards, errors, uiVars>>

\* Lines 300-302: the call throws (any call may be made to), the error is logged
CallThrows ==
    /\ pc = "loop"
    /\ i < count
    /\ errors' = Append(errors, i + 1)
    /\ calls' = Append(calls, [ok |-> FALSE, card |-> NoValue])
    /\ i' = i + 1
    /\ UNCHANGED <<pc, arg, ret, now, seed, drawn, count, cards, uiVars>>

\* Line 304
ReturnCards ==
    /\ pc = "loop"
    /\ ~(i < count)
    /\ ret' = cards
    /\ pc' = "done"
    /\ UNCHANGED <<arg, now, seed, drawn, count, i, cards, calls, errors, uiVars>>

NextBatch == CallReturns \/ CallThrows \/ ReturnCards

SpecBatch == InitBatch /\ [][NextBatch]_vars

-----------------------------------------------------------------------------
(* page.jsx: the pattern field, the count field and the Generate button      *)

\* generateMultipleCards with every call returning: the loop of lines 296-303
RECURSIVE batchLoop(_, _, _, _, _, _, _)
batchLoop(pattern, n, clock, sd, k, j, acc) ==
    IF ~(j < n) THEN [cards |-> acc, used |-> k]
    ELSE CHOOSE result \in
            {batchLoop(pattern, n, clock, sd, k + r.used, j + 1, Append(acc, r.card)) :
                r \in {generateCreditCard(pattern, clock, sd, k)}} : TRUE

generateMultipleCards(pattern, n, clock, sd, k) ==
    LET r == batchLoop(pattern, n, clock, sd, k, 0, <<>>)
    IN  [cards |-> r.cards, used |-> r.used - k]

\* String.prototype.trim
RECURSIVE trimStart(_)
trimStart(s) ==
    IF s # <<>> /\ Head(s) \in WhitespaceChars THEN trimStart(Tail(s)) ELSE s

RECURSIVE trimEnd(_)
trimEnd(s) ==
    IF s # <<>> /\ s[Len(s)] \in WhitespaceChars THEN trimEnd(SubSeq(s, 1, Len(s) - 1)) ELSE s

trim(s) == trimEnd(trimStart(s))

\* The character class of /^[0-9\*XxQ#_?\|\-\/:\s]+$/
validWildcards ==
    Digit \cup {"*", "X", "x", "Q", "#", "_", "?", "|", "-", "/", ":"} \cup WhitespaceChars

\* validatePattern: what it returns and what it passes to setPatternError
validatePattern(pattern) ==
    IF trim(pattern) = <<>>
    THEN [valid |-> FALSE, error |-> "Pattern cannot be empty"]
    ELSE IF ~(Len(pattern) >= 1 /\ \A k \in 1..Len(pattern) : pattern[k] \in validWildcards)
    THEN [valid |-> FALSE,
          error |-> "Invalid characters in pattern. Use only digits and wildcards: *, X, x, ?, #, _"]
    ELSE [valid |-> TRUE, error |-> ""]

\* What is typed into the pattern field
UiPatterns ==
    {<<>>,
     <<" ">>,
     <<"4", "A">>,
     <<"4", "Q">>,
     <<"4", "Q", "|", "Q", "2">>,
     <<"4", "5", ".", "2">>,
     <<"4", "5", "3", "2", "*", "*", "*", "*", "*", "*", "*", "*">>,
     <<"3", "7", "#", " ", "|", " ", "1", "X", " ", "/", " ", "2", "x">>,
     <<"4", "1", "1", "1", "1", "1", "1", "1", "1", "1", "1", "1", "1", "1", "1", "1", "|", "1", "2", "|", "2", "6", "|", "1", "2", "3">>}

\* What is typed into the count field
UiCounts == {<<>>, <<"0">>, <<"2">>, <<"3">>}

UiSeeds == {sd \in Seeds : sd.a % 12 = 9 /\ sd.b \in {6, 18}}

\* No generation is started once this many draws have been made
MaxDrawn == 12

InitUi ==
    /\ InitIdle
    /\ arg = NoValue
    /\ seed \in UiSeeds

\* Line 206, lines 53-56
handlePatternChange ==
    \E value \in UiPatterns :
        /\ binPattern' = value
        /\ patternError' = validatePattern(value).error
        /\ UNCHANGED <<pc, arg, ret, now, seed, drawn, count, i, cards, calls, errors,
                       cardCount, generatedCards, isGenerating>>

\* Lines 274-278
setCardCount ==
    \E value \in UiCounts :
        /\ LET parsed == parseInt(value)
               orOne == IF isNaN(parsed) \/ parsed = 0 THEN 1 ELSE parsed
           IN  cardCount' = Min(100, Max(1, orOne))
        /\ UNCHANGED <<pc, arg, ret, now, seed, drawn, count, i, cards, calls, errors,
                       binPattern, generatedCards, isGenerating, patternError>>

\* Line 311: the Generate button does not fire
disabled == isGenerating \/ trim(binPattern) = <<>> \/ patternError # ""

\* Lines 310, 58-99: arg, count and ret are those of its call of
\* generateMultipleCards, and pc is "done" once that call has been made
handleGenerate ==
    /\ ~disabled
    /\ drawn < MaxDrawn
    /\ LET v == validatePattern(binPattern)
       IN  /\ patternError' = v.error
           /\ IF ~v.valid
              THEN UNCHANGED <<pc, arg, ret, drawn, count, generatedCards, isGenerating>>
              ELSE \E r \in {generateMultipleCards(binPattern, cardCount, now, seed, drawn)} :
                       /\ arg' = binPattern
                       /\ count' = cardCount
                       /\ ret' = r.cards
                       /\ pc' = "done"
                       /\ drawn' = drawn + r.used
                       /\ generatedCards' = r.cards
                       /\ isGenerating' = FALSE
    /\ UNCHANGED <<now, seed, i, cards, calls, errors, binPattern, cardCount>>

NextUi == handlePatternChange \/ setCardCount \/ handleGenerate

SpecUi == InitUi /\ [][NextUi]_vars

-----------------------------------------------------------------------------
(* exportCardData(card, format), on the records generateCreditCard returns  *)

UpperCaseChars ==
    <<"A", "B", "C", "D", "E", "F", "G", "H", "I", "J", "K", "L", "M", "N", "O", "P", "Q", "R", "S", "T", "U", "V", "W", "X", "Y", "Z">>

LowerCaseChars ==
    <<"a", "b", "c", "d", "e", "f", "g", "h", "i", "j", "k", "l", "m", "n", "o", "p", "q", "r", "s", "t", "u", "v", "w", "x", "y", "z">>

\* String.prototype.toLowerCase, on ASCII
toLowerCase(s) ==
    [k \in 1..Len(s) |->
        IF \E n \in 1..26 : UpperCaseChars[n] = s[k]
        THEN LowerCaseChars[CHOOSE n \in 1..26 : UpperCaseChars[n] = s[k]]
        ELSE s[k]]

\* The characters of the cardType strings
CardTypeChars ==
    [name \in {"Visa", "Mastercard", "American Express", "Discover", "Diners Club", "JCB", "Dankort", "Visa Electron", "Unknown"} |->
        CASE name = "Visa" -> <<"V", "i", "s", "a">>
          [] name = "Mastercard" -> <<"M", "a", "s", "t", "e", "r", "c", "a", "r", "d">>
          [] name = "American Express" -> <<"A", "m", "e", "r", "i", "c", "a", "n", " ", "E", "x", "p", "r", "e", "s", "s">>
          [] name = "Discover" -> <<"D", "i", "s", "c", "o", "v", "e", "r">>
          [] name = "Diners Club" -> <<"D", "i", "n", "e", "r", "s", " ", "C", "l", "u", "b">>
          [] name = "JCB" -> <<"J", "C", "B">>
          [] name = "Dankort" -> <<"D", "a", "n", "k", "o", "r", "t">>
          [] name = "Visa Electron" -> <<"V", "i", "s", "a", " ", "E", "l", "e", "c", "t", "r", "o", "n">>
          [] name = "Unknown" -> <<"U", "n", "k", "n", "o", "w", "n">>]

\* The fields of a record as JavaScript strings, in the order of lines 284-291
fieldNames ==
    <<<<"c", "a", "r", "d", "N", "u", "m", "b", "e", "r">>,
      <<"m", "o", "n", "t", "h">>,
      <<"y", "e", "a", "r">>,
      <<"c", "v", "v">>,
      <<"c", "a", "r", "d", "T", "y", "p", "e">>,
      <<"f", "o", "r", "m", "a", "t", "t", "e", "d">>>>

fieldValues(card) ==
    <<card.cardNumber, card.month, card.year, card.cvv, CardTypeChars[card.cardType], card.formatted>>

\* JSON.stringify of a string: quoted, with " and \ escaped
RECURSIVE jsonEscape(_)
jsonEscape(s) ==
    IF s = <<>> THEN <<>>
    ELSE (IF Head(s) \in {"\"", "\\"} THEN <<"\\", Head(s)>> ELSE <<Head(s)>>) \o jsonEscape(Tail(s))

jsonQuote(s) == <<"\"">> \o jsonEscape(s) \o <<"\"">>

\* JSON.stringify(card, null, 2): the members from the n-th on
RECURSIVE jsonMembers(_, _)
jsonMembers(card, n) ==
    IF n > Len(fieldNames) THEN <<>>
    ELSE <<"\n", " ", " ">> \o jsonQuote(fieldNames[n]) \o <<":", " ">> \o jsonQuote(fieldValues(card)[n])
            \o (IF n < Len(fieldNames) THEN <<",">> ELSE <<>>)
            \o jsonMembers(card, n + 1)

\* s.replace(/(.{4})/g, "$1 ")
RECURSIVE groupsOfFour(_)
groupsOfFour(s) ==
    IF Len(s) < 4 THEN s
    ELSE SubSeq(s, 1, 4) \o <<" ">> \o groupsOfFour(SubSeq(s, 5, Len(s)))

exportPipe(card) ==
    card.cardNumber \o <<"|">> \o card.month \o <<"|">> \o card.year \o <<"|">> \o card.cvv

exportJson(card) == <<"{">> \o jsonMembers(card, 1) \o <<"\n", "}">>

\* The csv line without the cardType
exportCsvMutFourFields(card) ==
    card.cardNumber \o <<",">> \o card.month \o <<",">> \o card.year \o <<",">> \o card.cvv

exportCsv(card) ==
    card.cardNumber \o <<",">> \o card.month \o <<",">> \o card.year \o <<",">> \o card.cvv
        \o <<",">> \o CardTypeChars[card.cardType]

exportFormatted(card) ==
    trim(groupsOfFour(card.cardNumber)) \o <<" ">> \o card.month \o <<"/">> \o card.year
        \o <<" ">> \o card.cvv

\* default: the csv line
exportCardDataMutDefaultCsv(card, format) ==
    LET f == toLowerCase(format)
    IN  IF f = <<"p", "i", "p", "e">> THEN exportPipe(card)
        ELSE IF f = <<"j", "s", "o", "n">> THEN exportJson(card)
        ELSE IF f = <<"c", "s", "v">> THEN exportCsv(card)
        ELSE IF f = <<"f", "o", "r", "m", "a", "t", "t", "e", "d">> THEN exportFormatted(card)
        ELSE exportCsv(card)

exportCardData(card, format) ==
    LET f == toLowerCase(format)
    IN  IF f = <<"p", "i", "p", "e">> THEN exportPipe(card)
        ELSE IF f = <<"j", "s", "o", "n">> THEN exportJson(card)
        ELSE IF f = <<"c", "s", "v">> THEN exportCsv(card)
        ELSE IF f = <<"f", "o", "r", "m", "a", "t", "t", "e", "d">> THEN exportFormatted(card)
        ELSE card.formatted

\* The format arguments tried: the four names in several cases, and others
ExportFormats ==
    {<<"p", "i", "p", "e">>,
     <<"P", "I", "P", "E">>,
     <<"P", "i", "p", "e">>,
     <<"j", "s", "o", "n">>,
     <<"J", "S", "O", "N">>,
     <<"c", "s", "v">>,
     <<"C", "s", "v">>,
     <<"f", "o", "r", "m", "a", "t", "t", "e", "d">>,
     <<"F", "O", "R", "M", "A", "T", "T", "E", "D">>,
     <<>>,
     <<"x", "m", "l">>,
     <<"p", "i", "p", "e", "s">>,
     <<"p", "i", "p">>,
     <<"t", "e", "x", "t">>,
     <<"|">>,
     <<"p", "i", "p", "e", " ">>,
     <<"c", "v", "s">>,
     <<"d", "e", "f", "a", "u", "l", "t">>}

ExportPatterns == BinPatterns \cup FormatPatterns

ExportSeeds == {sd \in Seeds : sd.a % 12 = 9 /\ sd.b \in {6, 18, 42}}

InitExport ==
    /\ InitGen
    /\ arg \in ExportPatterns
    /\ now = [year |-> 2026, month |-> 11]
    /\ seed \in ExportSeeds

\* exportCardData on the record Generate has returned
Export ==
    /\ pc = "done"
    /\ \E format \in ExportFormats :
        ret' = [card |-> ret.card, format |-> format, text |-> exportCardData(ret.card, format)]
    /\ pc' = "exported"
    /\ UNCHANGED <<arg, now, seed, drawn, count, i, cards, calls, errors, uiVars>>

NextExport == Generate \/ Export

SpecExport == InitExport /\ [][NextExport]_vars

-----------------------------------------------------------------------------
(* generateRandomExpiry(), for every month of some years                    *)

\* Years before a new century, a new millennium, and an ordinary one
ExpiryYears == {1999, 2026, 2095}

InitExpiry ==
    /\ pc = "call"
    /\ arg = NoValue
    /\ ret = NoValue
    /\ now \in [year : ExpiryYears, month : 1..12]
    /\ seed \in Seeds
    /\ drawn = 0
    /\ count = 0
    /\ i = 0
    /\ cards = <<>>
    /\ calls = <<>>
    /\ errors = <<>>
    /\ binPattern = <<>>
    /\ cardCount = 1
    /\ generatedCards = <<>>
    /\ isGenerating = FALSE
    /\ patternError = ""

Expiry ==
    /\ pc = "call"
    /\ LET r == generateRandomExpiry(now, seed, drawn)
       IN  /\ ret' = r
           /\ drawn' = drawn + r.used
    /\ pc' = "done"
    /\ UNCHANGED <<arg, now, seed, count, i, cards, calls, errors, uiVars>>

NextExpiry == Expiry

SpecExpiry == InitExpiry /\ [][NextExpiry]_vars

-----------------------------------------------------------------------------
(* detectCardType(input) and generateCreditCard(input) on the same inputs   *)

\* Every digit string of length 0 to 3, every four digits alone and followed
\* by twelve digits
BrandDigitStrings ==
    UNION {[1..n -> Digit] : n \in 0..3}
        \cup {p \o t : p \in [1..4 -> Digit],
                       t \in {<<>>, <<"0", "0", "0", "0", "0", "0", "0", "0", "0", "0", "0", "0">>}}

\* Wildcards that can expand into the four digits of a listed prefix, and
\* inputs that are not all digits
BrandPatterns ==
    {<<"X", "0", "2", "6">>,
     <<"4", "0", "X", "6">>,
     <<"?", "1", "7", "5">>,
     <<"4", "4", "#", "5">>,
     <<"X", "5", "0", "8">>,
     <<"4", "8", "_", "4">>,
     <<"4", "9", "1", "*">>,
     <<"x", "9", "1", "7">>,
     <<"X", "X", "X", "X">>,
     <<"4", "0", "2", "6", "X", "X", "X", "X", "X", "X", "X", "X", "X", "X", "X", "X", "|", "1", "2", "|", "3", "0", "|", "1", "2", "3">>,
     <<"4", "9", "1", "7", "-", "1", "2", "-", "2", "0", "3", "0">>,
     <<"4", "0", "2", "6", " ", "1", "2", "3", "4", " ", "5", "6", "7", "8", " ", "9", "0", "1", "2">>,
     <<" ", "4", "1", "7", "5">>,
     <<"4", "4", "0", "5", "a", "b", "c", "d">>,
     <<"a", "b", "c", "d">>,
     <<"Q", "0", "2", "6">>,
     <<"-", "4", "0", "2", "6">>}

BrandInputs == BrandDigitStrings \cup BrandPatterns

\* Tapes whose first draw gives the digit 4, 2, 0 and 9
BrandSeeds == {sd \in Seeds : sd.a \in {27, 12, 3, 57} /\ sd.b = 0}

InitBrand ==
    /\ pc = "call"
    /\ arg \in BrandInputs
    /\ ret = NoValue
    /\ now = [year |-> 2026, month |-> 11]
    /\ seed \in BrandSeeds
    /\ drawn = 0
    /\ count = 0
    /\ i = 0
    /\ cards = <<>>
    /\ calls = <<>>
    /\ errors = <<>>
    /\ binPattern = <<>>
    /\ cardCount = 1
    /\ generatedCards = <<>>
    /\ isGenerating = FALSE
    /\ patternError = ""

\* detectCardType(arg); pc tells its result, a string, from the record of Generate
Classify ==
    /\ pc = "call"
    /\ ret' = detectCardType(arg)
    /\ pc' = "detected"
    /\ UNCHANGED <<arg, now, seed, drawn, count, i, cards, calls, errors, uiVars>>

NextBrand == Classify \/ Generate

SpecBrand == InitBrand /\ [][NextBrand]_vars

-----------------------------------------------------------------------------
(* parseInputPattern, on strings of digits, wildcards, separators, whitespace *)

\* The longest string tried of every make-up
MaxParseLen == 4

\* The most segments joined
MaxSegments == 6

ParseAlphabet == {"4", "X", "|", "/", ":", "-", " ", "\t"}

SegmentChoices == <<<<"4", "5", "3", "2">>, <<"1", "2">>, <<"X", "*">>>>

\* One separator, two in a row, and separators among whitespace
SeparatorChoices ==
    <<<<"|">>,
      <<"/">>,
      <<":">>,
      <<"-">>,
      <<"|", "|">>,
      <<" ", "|", " ">>,
      <<"-", "/">>,
      <<"\t", ":">>>>

\* n segments, the j-th being choice a + j, joined by the separators b + c * j
RECURSIVE Joined(_, _, _, _, _)
Joined(j, n, a, b, c) ==
    IF j > n THEN <<>>
    ELSE SegmentChoices[((a + j) % Len(SegmentChoices)) + 1]
            \o (IF j < n THEN SeparatorChoices[((b + c * j) % Len(SeparatorChoices)) + 1] ELSE <<>>)
            \o Joined(j + 1, n, a, b, c)

JoinedInputs ==
    {lead \o Joined(1, n, a, b, c) \o trail :
        n \in 1..MaxSegments, a \in 0..2, b \in 0..7, c \in 0..7,
        lead \in {<<>>, <<"/">>}, trail \in {<<>>, <<"|", " ">>}}

ExamplePattern ==
    <<"4", "5", "3", "2", "*", "*", "*", "*", "*", "*", "*", "*", "|", "1", "2", "|", "2", "6", "|", "1", "2", "3">>

ParseInputs ==
    UNION {[1..n -> ParseAlphabet] : n \in 0..MaxParseLen}
        \cup JoinedInputs \cup Patterns \cup {ExamplePattern}

InitParse ==
    /\ InitIdle
    /\ arg \in ParseInputs
    /\ seed = [a |-> 0, b |-> 0]

Parse ==
    /\ pc = "call"
    /\ ret' = parseInputPattern(arg)
    /\ pc' = "done"
    /\ UNCHANGED <<arg, now, seed, drawn, count, i, cards, calls, errors, uiVars>>

NextParse == Parse

SpecParse == InitParse /\ [][NextParse]_vars

-----------------------------------------------------------------------------
(* What the claims speak of                                                 *)

\* The WildcardSet of the specification
WildcardSet == {"*", "X", "x", "?", "#", "_"}

\* A pattern made only of digits, wildcards, separators and whitespace
AcceptedPattern(p) ==
    \A k \in 1..Len(p) : p[k] \in Digit \cup WildcardSet \cup {"|", "/", ":", "-"} \cup {" ", "\t"}

\* The value of the first n characters of a digit string at least n long
PrefixIn(s, n, lo, hi) ==
    /\ Len(s) >= n
    /\ IsDigits(SubSeq(s, 1, n))
    /\ DigitsValue(SubSeq(s, 1, n)) \in lo..hi

\* The brand-length rule: 15 for 34 and 37, 14 for 30, 36 and 38, else 16
BrandLength(bin) ==
    IF PrefixIn(bin, 2, 34, 34) \/ PrefixIn(bin, 2, 37, 37) THEN 15
    ELSE IF PrefixIn(bin, 2, 30, 30) \/ PrefixIn(bin, 2, 36, 36) \/ PrefixIn(bin, 2, 38, 38) THEN 14
    ELSE 16

\* The segments of the pattern of a generateCreditCard run, and its expanded bin
Parsed == parseInputPattern(arg)

ExpandedBin == fillWildcards(Parsed.bin, seed, 0)

Generated == pc = "done" /\ AcceptedPattern(arg)

\* C1: the card number generate returns has the length of the brand-length
\* rule applied to the expanded bin: 15 for 34 and 37, 14 for 30, 36 and 38,
\* and 16 otherwise.
C1_LengthFollowsBrandRule ==
    Generated => Len(ret.card.cardNumber) = BrandLength(ExpandedBin)

\* C2: the card number generate returns is a string of decimal digits that
\* luhnCheck accepts, whether the bin is empty, short or long.
C2_CardNumberIsLuhnValid ==
    Generated =>
        /\ Len(ret.card.cardNumber) > 0
        /\ IsDigits(ret.card.cardNumber)
        /\ luhnCheck(ret.card.cardNumber)

\* The bin is empty and all sixteen digits are drawn
C2_Witness ==
    /\ Generated
    /\ Parsed.bin = <<>>
    /\ drawn >= 16
    /\ luhnCheck(ret.card.cardNumber)
    /\ ret.card.cardNumber[16] # "0"

\* C3: for every digit sequence d of length at least 1, luhnCheck accepts
\* generateValidCardNumber(first 15 digits of d).
C3_RoundTrip ==
    pc = "done" => (Len(arg) >= 1 /\ IsDigits(arg) /\ ret.valid)

\* A sequence longer than 15 digits, cut to 15, with a check digit other than 0
C3_Witness ==
    /\ pc = "done"
    /\ Len(arg) > 15
    /\ ret.valid
    /\ Len(ret.number) = 16
    /\ SubSeq(ret.number, 1, 15) = SubSeq(arg, 1, 15)
    /\ ret.number[16] # "0"

\* A bin of sixteen literal digits that is Luhn-valid and starts with none of
\* 34, 37, 30, 36, 38
ValidSixteenDigitBin ==
    /\ Len(Parsed.bin) = 16
    /\ IsDigits(Parsed.bin)
    /\ luhnCheck(Parsed.bin)
    /\ BrandLength(Parsed.bin) = 16

\* C4: for a Luhn-valid bin of sixteen literal digits that starts with none of
\* 34, 37, 30, 36, 38, generate returns the bin itself as the card number.
C4_ValidBinIsKept ==
    (Generated /\ ValidSixteenDigitBin) => ret.card.cardNumber = Parsed.bin

\* Such a bin, followed by other segments, with a last digit other than 0
C4_Witness ==
    /\ Generated
    /\ ValidSixteenDigitBin
    /\ Parsed.month # Null
    /\ Parsed.bin[16] # "0"
    /\ ret.card.cardNumber = Parsed.bin

\* The rule list of the brand classifier, in its order: a rule matches when
\* the first n digits, as a number, lie in one of its ranges <<n, lo, hi>>
BrandRules ==
    <<[brand |-> "Visa", ranges |-> {<<1, 4, 4>>}],
      [brand |-> "Mastercard", ranges |-> {<<2, 51, 55>>, <<4, 2221, 2720>>}],
      [brand |-> "American Express", ranges |-> {<<2, 34, 34>>, <<2, 37, 37>>}],
      [brand |-> "Discover", ranges |-> {<<4, 6011, 6011>>, <<2, 65, 65>>, <<6, 644000, 649999>>}],
      [brand |-> "Diners Club", ranges |-> {<<2, 30, 30>>, <<2, 36, 36>>, <<2, 38, 38>>}],
      [brand |-> "JCB", ranges |-> {<<2, 35, 35>>}],
      [brand |-> "Dankort", ranges |-> {<<4, 5019, 5019>>}],
      [brand |-> "Visa Electron",
       ranges |-> {<<4, 4026, 4026>>, <<4, 4175, 4175>>, <<4, 4405, 4405>>, <<4, 4508, 4508>>,
                   <<4, 4844, 4844>>, <<4, 4913, 4913>>, <<4, 4917, 4917>>}]>>

RuleMatches(rule, s) == \E r \in rule.ranges : PrefixIn(s, r[1], r[2], r[3])

FirstMatch(s) ==
    LET hits == {k \in 1..Len(BrandRules) : RuleMatches(BrandRules[k], s)}
    IN  IF hits = {} THEN "Unknown"
        ELSE BrandRules[CHOOSE k \in hits : \A h \in hits : k <= h].brand

\* C5: detectCardType returns, for every digit string, the brand of the first
\* rule of the ordered rule list that matches, and Unknown when none does.
C5_DetectIsFirstMatch ==
    pc = "done" => (IsDigits(arg) /\ ret = FirstMatch(arg))

\* A number that two rules match, Visa and Visa Electron: the first one wins
C5_Witness ==
    /\ pc = "done"
    /\ RuleMatches(BrandRules[1], arg)
    /\ RuleMatches(BrandRules[8], arg)
    /\ ret = "Visa"

\* C6: the month of the record generate returns is two digits that denote a
\* value in 01..12, whether it was literal, had wildcards, or was drawn.
C6_MonthIsTwoDigitsInRange ==
    Generated =>
        /\ Len(ret.card.month) = 2
        /\ IsDigits(ret.card.month)
        /\ DigitsValue(ret.card.month) \in 1..12

\* C7: the year of the record generate returns is exactly two digits, whatever
\* the length of the year segment of the pattern.
C7_YearIsTwoDigits ==
    Generated => (Len(ret.card.year) = 2 /\ IsDigits(ret.card.year))

\* C8: the cvv of the record generate returns has 4 digits when cardType is
\* American Express and 3 digits otherwise, whether it was literal, had
\* wildcards, or was omitted.
C8_CvvLengthFollowsBrand ==
    Generated =>
        /\ IsDigits(ret.card.cvv)
        /\ Len(ret.card.cvv) = (IF ret.card.cardType = "American Express" THEN 4 ELSE 3)

\* The records of the calls that returned, in the order of the calls
RecordsOf(log) ==
    [k \in 1..Len(SelectSeq(log, LAMBDA c : c.ok)) |-> SelectSeq(log, LAMBDA c : c.ok)[k].card]

\* C9: generateMultipleCards calls generateCreditCard exactly count times and
\* returns exactly the records of the calls that did not fail, in the order of
\* the calls: count minus the number of failures, so at most count; a failure
\* is logged and neither reaches the caller nor stops the later calls.
C9_BatchKeepsSuccessfulRecords ==
    pc = "done" =>
        /\ Len(calls) = count
        /\ Len(ret) = count - Len(errors)
        /\ Len(ret) <= count
        /\ Len(errors) = Len(SelectSeq(calls, LAMBDA c : ~c.ok))
        /\ ret = RecordsOf(calls)

\* Three calls of which the second fails: the first and third records return
C9_Witness ==
    /\ pc = "done"
    /\ count = 3
    /\ errors = <<2>>
    /\ Len(ret) = 2
    /\ calls[1].ok /\ ~calls[2].ok /\ calls[3].ok
    /\ ret = <<calls[1].card, calls[3].card>>
    /\ ret[1] # ret[2]

\* C10: fillWildcards replaces only the characters of the WildcardSet
\* {*, X, x, ?, #, _}; every other character is unchanged at its position.
C10_OnlyWildcardSetIsReplaced ==
    pc = "done" =>
        /\ Len(ret) = Len(arg)
        /\ \A k \in 1..Len(arg) : arg[k] \notin WildcardSet => ret[k] = arg[k]

\* C11: fillWildcards keeps the length: for every string and every draw, the
\* result is as long as the string (each wildcard becomes exactly one digit).
C11_FillKeepsLength ==
    pc = "done" => Len(ret) = Len(arg)

\* A string of wildcards only, every one of them replaced by a digit
C11_Witness ==
    /\ pc = "done"
    /\ Len(arg) = 3
    /\ \A k \in 1..3 : arg[k] \in WildcardSet /\ ret[k] \in Digit
    /\ drawn = 3

\* The input without its whitespace
Stripped == SelectSeq(arg, LAMBDA c : c \notin {" ", "\t"})

IsSeparator(c) == c \in {"|", "/", ":", "-"}

\* The segments of a string: its longest stretches <<a, b>> without a separator
SegmentSpans(t) ==
    {sp \in (1..Len(t)) \X (1..Len(t)) :
        /\ sp[1] <= sp[2]
        /\ \A k \in sp[1]..sp[2] : ~IsSeparator(t[k])
        /\ (sp[1] = 1 \/ IsSeparator(t[sp[1] - 1]))
        /\ (sp[2] = Len(t) \/ IsSeparator(t[sp[2] + 1]))}

\* The n-th segment from the left, Null when there are fewer
NthSegment(t, n) ==
    LET spans == SegmentSpans(t)
    IN  IF Cardinality(spans) < n THEN Null
        ELSE LET sp == CHOOSE x \in spans : Cardinality({y \in spans : y[1] < x[1]}) = n - 1
             IN  SubSeq(t, sp[1], sp[2])

\* C12: parseInputPattern strips the whitespace, splits on | / : -, drops the
\* empty segments and gives the 1st segment to bin, the 2nd to month, the 3rd
\* to year, the 4th to cvv; month, year and cvv are null when their segment is
\* missing, and the segments after the 4th are ignored.
C12_ParseAssignsSegments ==
    pc = "done" =>
        /\ DOMAIN ret = {"bin", "month", "year", "cvv"}
        /\ (NthSegment(Stripped, 1) # Null => ret.bin = NthSegment(Stripped, 1))
        /\ ret.month = NthSegment(Stripped, 2)
        /\ ret.year = NthSegment(Stripped, 3)
        /\ ret.cvv = NthSegment(Stripped, 4)

\* The example of the claim
C12_Witness ==
    /\ pc = "done"
    /\ arg = ExamplePattern
    /\ ret.bin = <<"4", "5", "3", "2", "*", "*", "*", "*", "*", "*", "*", "*">>
    /\ ret.month = <<"1", "2">>
    /\ ret.year = <<"2", "6">>
    /\ ret.cvv = <<"1", "2", "3">>

\* A pattern with something else than whitespace in it
NonBlank(p) == \E k \in 1..Len(p) : p[k] \notin {" ", "\t"}

\* C13: handleGenerate calls generateMultipleCards only when the pattern is
\* non-blank and made only of digits, the six wildcards, the four separators
\* and whitespace; what generateMultipleCards has been called with is such a
\* pattern. Refuted by the pattern "4Q".
C13_GeneratesOnlyAcceptedPatterns ==
    pc = "done" => NonBlank(arg) /\ AcceptedPattern(arg)

\* Two strings that are equal but for the case of their letters
SameIgnoringCase(a, b) ==
    /\ Len(a) = Len(b)
    /\ \A k \in 1..Len(a) :
        \/ a[k] = b[k]
        \/ \E n \in 1..26 : {a[k], b[k]} = {UpperCaseChars[n], LowerCaseChars[n]}

KnownFormats ==
    {<<"p", "i", "p", "e">>,
     <<"j", "s", "o", "n">>,
     <<"c", "s", "v">>,
     <<"f", "o", "r", "m", "a", "t", "t", "e", "d">>}

\* C14: for a format that is none of pipe, json, csv, formatted, whatever the
\* case of its letters, exportCardData returns what it returns for "pipe":
\* cardNumber|month|year|cvv.
C14_UnknownFormatFallsBackToPipe ==
    (pc = "exported" /\ \A known \in KnownFormats : ~SameIgnoringCase(ret.format, known)) =>
        /\ ret.text = exportCardData(ret.card, <<"p", "i", "p", "e">>)
        /\ ret.text = ret.card.cardNumber \o <<"|">> \o ret.card.month \o <<"|">> \o ret.card.year
                        \o <<"|">> \o ret.card.cvv

C14_Witness ==
    /\ pc = "exported"
    /\ ret.format = <<"x", "m", "l">>
    /\ ret.card.cardType = "American Express"
    /\ Len(ret.text) = Len(ret.card.cardNumber) + 11

\* Where the commas of a string are
CommaPositions(t) == {k \in 1..Len(t) : t[k] = ","}

\* The n-th of the fields the commas of t separate
FieldAt(t, n) ==
    LET ends == {k \in CommaPositions(t) : Cardinality({c \in CommaPositions(t) : c < k}) = n - 1}
        starts == {k \in CommaPositions(t) : Cardinality({c \in CommaPositions(t) : c < k}) = n - 2}
        from == IF n = 1 THEN 1 ELSE (CHOOSE k \in starts : TRUE) + 1
        to == IF ends = {} THEN Len(t) ELSE (CHOOSE k \in ends : TRUE) - 1
    IN  SubSeq(t, from, to)

\* C15: for a record generate returns on a pattern of digits, wildcards,
\* separators and whitespace, the csv export splits on its commas into exactly
\* 5 fields: the cardNumber, month, year, cvv and cardType of the record.
C15_CsvHasTheFiveFields ==
    (pc = "exported" /\ ret.format = <<"c", "s", "v">> /\ AcceptedPattern(arg)) =>
        /\ Cardinality(CommaPositions(ret.text)) = 4
        /\ FieldAt(ret.text, 1) = ret.card.cardNumber
        /\ FieldAt(ret.text, 2) = ret.card.month
        /\ FieldAt(ret.text, 3) = ret.card.year
        /\ FieldAt(ret.text, 4) = ret.card.cvv
        /\ FieldAt(ret.text, 5) = CardTypeChars[ret.card.cardType]

C15_Witness ==
    /\ pc = "exported"
    /\ ret.format = <<"c", "s", "v">>
    /\ AcceptedPattern(arg)
    /\ ret.card.cardType = "Diners Club"
    /\ Len(ret.card.cardNumber) = 16
    /\ FieldAt(ret.text, 5) = <<"D", "i", "n", "e", "r", "s", " ", "C", "l", "u", "b">>

\* The pattern has a month segment and no year segment
LoneMonth == Parsed.bin # <<>> /\ Parsed.month # Null /\ Parsed.year = Null

\* Month segments to put in the place of a lone month
OtherMonths ==
    {<<"1", "2">>, <<"0", "1">>, <<"7">>, <<"9", "9">>, <<"X">>, <<"X", "X">>, <<"?", "#", "*">>}

\* C16: a month without a year has no influence: month and year both come
\* from generateRandomExpiry, and the pattern with any other lone month gives
\* the same record under the same clock and the same random draws.
C16_LoneMonthHasNoInfluence ==
    (pc = "done" /\ LoneMonth) =>
        /\ \A other \in OtherMonths :
                generateCreditCard(Parsed.bin \o Bar \o other, now, seed, 0) = ret
        /\ LET expiry == generateRandomExpiry(now, seed, drawn - 2 - Len(ret.card.cvv))
           IN  ret.card.month = expiry.month /\ ret.card.year = expiry.year

\* The lone month 12 and another month in the record
C16_Witness ==
    /\ pc = "done"
    /\ LoneMonth
    /\ Parsed.month = <<"1", "2">>
    /\ ret.card.month = <<"0", "5">>

\* The last two digits of a year
LastTwoDigits(y) == <<DigitChar((y \div 10) % 10), DigitChar(y % 10)>>

\* C17: generateRandomExpiry returns a two-digit month in 01..12 and the last
\* two digits of a year in currentYear + 1 .. currentYear + 10, a year after
\* the current one; the redraw and the month wrap change nothing: the month
\* and the year are the two drawn, and no third draw is made.
C17_ExpiryIsInTheNextTenYears ==
    pc = "done" =>
        /\ Len(ret.month) = 2
        /\ IsDigits(ret.month)
        /\ DigitsValue(ret.month) \in 1..12
        /\ \E y \in (now.year + 1)..(now.year + 10) : ret.year = LastTwoDigits(y)
        /\ DigitsValue(ret.month) = randomInt(seed, 1, 12) + 1
        /\ ret.year = LastTwoDigits(now.year + randomInt(seed, 0, 10) + 1)
        /\ drawn = 2

\* In December, the month 01 of the next year: the earliest expiry there is
C17_Witness ==
    /\ pc = "done"
    /\ now = [year |-> 2026, month |-> 12]
    /\ ret.month = <<"0", "1">>
    /\ ret.year = <<"2", "7">>

\* The pattern gives a month and a year, and the year has a wildcard in it
WildcardYear ==
    /\ Parsed.month # Null
    /\ Parsed.year # Null
    /\ \E k \in 1..Len(Parsed.year) : Parsed.year[k] \in WildcardSet

\* C18: when month and year are present and the year segment has a wildcard,
\* the four-digit year generate resolves, before cutting it to two digits, is
\* not before the current year; for a year segment of four characters it is
\* at most the current year + 20.
C18_WildcardYearIsNotPast ==
    (Generated /\ WildcardYear) =>
        /\ Len(ret.processedYear) = 4
        /\ IsDigits(ret.processedYear)
        /\ DigitsValue(ret.processedYear) >= now.year
        /\ (Len(Parsed.year) = 4 => DigitsValue(ret.processedYear) <= now.year + 20)

\* A two-character year that was expanded into the current century and kept
C18_Witness ==
    /\ Generated
    /\ WildcardYear
    /\ Parsed.year = <<"X", "X">>
    /\ now.year = 2026
    /\ DigitsValue(ret.processedYear) > now.year + 10

\* The cvv length of the brand of the record returned
ExpectedCvvLength == IF ret.card.cardType = "American Express" THEN 4 ELSE 3

\* The pattern gives a cvv with a wildcard in it
WildcardCvv ==
    /\ Parsed.cvv # Null
    /\ \E k \in 1..Len(Parsed.cvv) : Parsed.cvv[k] \in WildcardSet

\* C19: when the cvv segment is absent or has a wildcard, the cvv returned is
\* made of digits, 4 of them for American Express and 3 otherwise; a wildcard
\* cvv of another length is discarded, and the cvv is then made of the draws
\* that follow its expansion.
C19_GeneratedCvvHasBrandLength ==
    (Generated /\ (Parsed.cvv = Null \/ WildcardCvv)) =>
        /\ IsDigits(ret.card.cvv)
        /\ Len(ret.card.cvv) = ExpectedCvvLength
        /\ (WildcardCvv /\ Len(Parsed.cvv) # ExpectedCvvLength) =>
                ret.card.cvv = [j \in 1..ExpectedCvvLength |->
                                    DigitChar(randomInt(seed, drawn - ExpectedCvvLength + j - 1, 10))]

\* Four wildcards for a card that is not American Express: three digits
C19_Witness ==
    /\ Generated
    /\ Parsed.cvv = <<"X", "X", "X", "X">>
    /\ ret.card.cardType = "Visa"
    /\ Len(ret.card.cvv) = 3
    /\ ret.card.cvv # fillWildcards(<<"X", "X", "X">>, seed, drawn - 7)

\* The bin starts with six literal digits
SixLiteralDigits == Len(Parsed.bin) >= 6 /\ IsDigits(SubSeq(Parsed.bin, 1, 6))

BinPrefix == SubSeq(Parsed.bin, 1, 6)

\* C20: when the bin starts with six or more literal digits, the card number
\* returned starts with those six digits and the cardType is detectCardType of
\* them: Mastercard for a bin starting 55, American Express for one starting 34.
C20_PrefixAndBrandAreKept ==
    (pc = "done" /\ SixLiteralDigits) =>
        /\ Len(ret.card.cardNumber) >= 6
        /\ SubSeq(ret.card.cardNumber, 1, 6) = BinPrefix
        /\ ret.card.cardType = detectCardType(BinPrefix)
        /\ (SubSeq(BinPrefix, 1, 2) = <<"5", "5">> => ret.card.cardType = "Mastercard")
        /\ (SubSeq(BinPrefix, 1, 2) = <<"3", "4">> => ret.card.cardType = "American Express")

\* A bin of six digits, ten digits appended: the Discover range 644000-649999
C20_Witness ==
    /\ pc = "done"
    /\ Parsed.bin = <<"6", "4", "4", "0", "0", "0">>
    /\ Len(ret.card.cardNumber) = 16
    /\ SubSeq(ret.card.cardNumber, 1, 6) = Parsed.bin
    /\ ret.card.cardType = "Discover"
    /\ drawn = 15

\* The Visa Electron prefixes of the rule list
ElectronPrefixes ==
    {<<"4", "0", "2", "6">>, <<"4", "1", "7", "5">>, <<"4", "4", "0", "5">>, <<"4", "5", "0", "8">>, <<"4", "8", "4", "4">>, <<"4", "9", "1", "3">>, <<"4", "9", "1", "7">>}

StartsWithElectronPrefix(s) == Len(s) >= 4 /\ SubSeq(s, 1, 4) \in ElectronPrefixes

\* C21: detectCardType never returns Visa Electron and generate never returns
\* a record whose cardType is Visa Electron: every Visa Electron prefix starts
\* with 4, and a number that starts with one is Visa, by the earlier rule.
C21_VisaElectronIsNeverReturned ==
    /\ \A prefix \in ElectronPrefixes : prefix[1] = "4"
    /\ pc = "detected" =>
            /\ ret # "Visa Electron"
            /\ (StartsWithElectronPrefix(arg) => ret = "Visa")
    /\ pc = "done" =>
            /\ ret.card.cardType # "Visa Electron"
            /\ (StartsWithElectronPrefix(ret.card.cardNumber) => ret.card.cardType = "Visa")

\* A wildcard expanded into a Visa Electron prefix: the card is a Visa
C21_Witness ==
    /\ pc = "done"
    /\ arg = <<"X", "0", "2", "6">>
    /\ SubSeq(ret.card.cardNumber, 1, 4) = <<"4", "0", "2", "6">>
    /\ ret.card.cardType = "Visa"

====
